---- MODULE Spec2Model ----
(***************************************************************************)
(* Model of apalis-core's WorkerBuilder (packages/apalis-core/src/         *)
(* builder.rs): a type-state builder that accumulates a name, a job-item   *)
(* type marker, a source stream and a tower ServiceBuilder layer stack,    *)
(* and is finally turned into a ReadyWorker by WorkerFactory::build or     *)
(* WorkerFactoryFn::build_fn.                                              *)
(*                                                                         *)
(* Option values are sequences of length 0 or 1.  A builder value that has *)
(* been moved (every method takes `self` by value) is no longer held.      *)
(***************************************************************************)
EXTENDS Integers, Sequences, FiniteSets

VARIABLES
    named,          \* history: <<>> or <<n>>, the name handed to new()
    builder,        \* <<>> or <<b>>: the WorkerBuilder value the caller holds
    worker,         \* <<>> or <<w>>: the ReadyWorker produced by build
    result,         \* <<>> or <<r>>: outcome of the last call of the worker's service
    added,          \* history: decorators handed to layer/middleware, in call order
    attached,       \* history: sources stored by stream/with_stream, in call order
    factoryCalls,   \* history: <<factory, WorkerRef>> for each call of a with_stream closure
    consumed,       \* history: builder values moved into build, in call order
    builtVia        \* history: "build" / "build_fn" for each worker built

vars == <<named, builder, worker, result, added, attached, factoryCalls, consumed, builtVia>>

----------------------------------------------------------------------------
(* Bounds *)

MaxDecorators == 2      \* total decorators added to one builder
MaxBatch == 2           \* decorators added by one middleware closure
MaxAttach == 2          \* stream / with_stream calls on one builder chain
MaxRequest == 1         \* request payloads are 0..MaxRequest

----------------------------------------------------------------------------
(* Inputs a caller can supply *)

Names == {"alpha", "beta"}

\* Decorators (tower layers) in the shape of an ordered-trace fake: a marker
\* before delegating, a marker after.  P1, P2 pass requests and responses
\* through untouched; RQ rewrites the request; RS rewrites the response.
Decorators == {"P1", "P2", "RQ", "RS"}

PassThrough == {"P1", "P2"}

\* Terminal functions / services, by name.
Handlers == {"inc", "dbl", "sq"}

\* Job-item types.  "()" is the unit type new() starts with.
UnitType == "()"

\* The request type a terminal handler accepts (Ser: Service<Request>).
HandlerItem(h) == IF h = "sq" THEN "Sms" ELSE "Email"

\* The source value new() starts with: `source: ()`.
UnitSource == [id |-> <<"()">>, item |-> UnitType]

\* Streams handed to stream(): NS: Stream<Item = Result<Option<JobRequest<NJ>>, E>>.
Streams ==
    { [id |-> <<"emails">>, item |-> "Email"],
      [id |-> <<"texts">>, item |-> "Sms"] }

\* Closures handed to with_stream(): NS: Fn(WorkerRef) -> ST.
Factories == {"queue_of", "shared"}

Requests == 0 .. MaxRequest

\* Sequences over S of length lo..hi.
RECURSIVE SeqsOfLen(_, _)
SeqsOfLen(S, n) ==
    IF n = 0 THEN { <<>> }
    ELSE { Append(s, x) : s \in SeqsOfLen(S, n - 1), x \in S }

SeqsUpTo(S, n) == UNION { SeqsOfLen(S, k) : k \in 0 .. n }

RECURSIVE Reverse(_)
Reverse(s) == IF s = <<>> THEN <<>> ELSE Append(Reverse(Tail(s)), Head(s))

----------------------------------------------------------------------------
(* Collaborators outside builder.rs *)

\* crate::worker::WorkerRef::new(name)
WorkerRef_new(name) == [name |-> name]

\* A with_stream closure applied to a WorkerRef.
ApplyFactory(fac, ref) ==
    IF fac = "queue_of"
    THEN [id |-> <<"queue", ref.name>>, item |-> "Email"]
    ELSE [id |-> <<"shared">>, item |-> "Sms"]

\* crate::job_fn::job_fn(f): the adapter service whose call is f(request).
job_fn(f) == <<"JobFn", f>>

\* A hand-written tower service around handler h.
Svc(h) == <<"Svc", h>>

TerminalServices == { job_fn(f) : f \in Handlers } \cup { Svc(h) : h \in Handlers }

\* The terminal function applied to a request payload.
Apply(h, r) ==
    CASE h = "inc" -> r + 1
      [] h = "dbl" -> 2 * r
      [] OTHER     -> r * r + 3

ReqMap(d, r) == IF d = "RQ" THEN r + 1 ELSE r

RespMap(d, x) == IF d = "RS" THEN x + 10 ELSE x

\* Service::call of a composed service on one request: the response, the
\* ordered trace of markers, and the arguments the terminal function saw.
RECURSIVE Call(_, _)
Call(svc, r) ==
    IF svc[1] = "Wrap"
    THEN LET d == svc[2]
             in == Call(svc[3], ReqMap(d, r))
         IN  [ req   |-> r,
               resp  |-> RespMap(d, in.resp),
               trace |-> <<<<"pre", d>>>> \o in.trace \o <<<<"post", d>>>>,
               args  |-> in.args ]
    ELSE [ req   |-> r,
           resp  |-> Apply(svc[2], r),
           trace |-> <<<<"call", svc[2]>>>>,
           args  |-> <<r>> ]

----------------------------------------------------------------------------
(* tower::ServiceBuilder as used by the builder *)

\* ServiceBuilder::new(): the Identity layer.
Identity == <<"Identity">>

\* Stack<Inner, Outer>
Stack(inner, outer) == <<"Stack", inner, outer>>

\* ServiceBuilder<L>::layer(T) -> ServiceBuilder<Stack<T, L>>
SB_layer(sb, T) == Stack(T, sb)

\* Layer::layer of one decorator: the decorator wrapped around a service.
Wrap(d, svc) == <<"Wrap", d, svc>>

\* ServiceBuilder<L>::service(svc) = L.layer(svc);
\* Stack::layer(svc) = outer.layer(inner.layer(svc)); Identity::layer(svc) = svc.
RECURSIVE SB_service(_, _)
SB_service(sb, svc) ==
    IF sb[1] = "Identity" THEN svc
    ELSE SB_service(sb[3], Wrap(sb[2], svc))

\* A middleware closure |sb| sb.layer(ds[1]).layer(ds[2])... applied to sb.
RECURSIVE ApplyFn(_, _)
ApplyFn(ds, sb) ==
    IF ds = <<>> THEN sb
    ELSE ApplyFn(Tail(ds), SB_layer(sb, Head(ds)))

----------------------------------------------------------------------------
(* WorkerBuilder<Job, Source, Middleware> { name, job, layer, source } *)

\* WorkerBuilder::new with a default decorator pre-installed in the chain.
new_DefaultLayer(name) ==
    [ name   |-> name,
      job    |-> UnitType,
      layer  |-> SB_layer(Identity, "RS"),
      source |-> UnitSource ]

\* WorkerBuilder::new(name)
new(name) ==
    [ name   |-> name,
      job    |-> UnitType,
      layer  |-> Identity,
      source |-> UnitSource ]

\* WorkerBuilder::stream that starts the layer stack afresh.
stream_FreshLayer(self, s) ==
    [ name   |-> self.name,
      job    |-> s.item,
      layer  |-> Identity,
      source |-> s ]

\* WorkerBuilder::stream(self, stream)
stream(self, s) ==
    [ name   |-> self.name,
      job    |-> s.item,
      layer  |-> self.layer,
      source |-> s ]

\* WorkerBuilder::with_stream that hands the closure an unnamed WorkerRef.
with_stream_Unnamed(self, fac) ==
    LET ref == WorkerRef_new("")
        st  == ApplyFactory(fac, ref)
    IN  [ b     |-> [ name   |-> self.name,
                      job    |-> st.item,
                      layer  |-> self.layer,
                      source |-> st ],
          calls |-> << <<fac, ref>> >> ]

\* WorkerBuilder::with_stream(self, stream): the builder returned, and the
\* calls made to the closure.
with_stream(self, fac) ==
    LET ref == WorkerRef_new(self.name)
        st  == ApplyFactory(fac, ref)
    IN  [ b     |-> [ name   |-> self.name,
                      job    |-> st.item,
                      layer  |-> self.layer,
                      source |-> st ],
          calls |-> << <<fac, ref>> >> ]

\* WorkerBuilder::middleware that hands the closure a fresh ServiceBuilder.
middleware_Fresh(self, ds) ==
    [ name   |-> self.name,
      job    |-> self.job,
      layer  |-> ApplyFn(ds, Identity),
      source |-> self.source ]

\* WorkerBuilder::middleware(self, f), f being the closure that adds ds.
middleware(self, ds) ==
    [ name   |-> self.name,
      job    |-> self.job,
      layer  |-> ApplyFn(ds, self.layer),
      source |-> self.source ]

\* The layers of sb, outermost first.
RECURSIVE LayersOf(_)
LayersOf(sb) ==
    IF sb[1] = "Identity" THEN <<>>
    ELSE Append(LayersOf(sb[3]), sb[2])

\* WorkerBuilder::layer that puts the new layer around the existing stack.
layer_Outermost(self, d) ==
    [ name   |-> self.name,
      job    |-> self.job,
      layer  |-> ApplyFn(<<d>> \o LayersOf(self.layer), Identity),
      source |-> self.source ]

\* WorkerBuilder::layer(self, layer)
layer(self, d) ==
    [ name   |-> self.name,
      job    |-> self.job,
      layer  |-> SB_layer(self.layer, d),
      source |-> self.source ]

\* The where clause of the WorkerFactory impl without the bound on S.
CanBuild_AnySource(self, service) ==
    HandlerItem(service[2]) \in {"Email", "Sms"}

\* The where clause of `impl WorkerFactory<J, Ser> for WorkerBuilder<J, S, M>`:
\* S: Stream<Item = Result<Option<Request>, E>> (the unit type is no Stream)
\* and Ser: Service<Request> for that same Request.
CanBuild(self, service) ==
    /\ self.source # UnitSource
    /\ HandlerItem(service[2]) = self.source.item

\* WorkerFactory::build that names the worker after its stream.
build_NameLost(self, service) ==
    [ name    |-> self.source.id[1],
      stream  |-> self.source,
      service |-> SB_service(self.layer, service) ]

\* WorkerFactory::build(self, service) -> ReadyWorker { name, stream, service }
build(self, service) ==
    [ name    |-> self.name,
      stream  |-> self.source,
      service |-> SB_service(self.layer, service) ]

\* WorkerFactoryFn::build_fn that hands the bare adapter to the worker.
build_fn_Bare(self, f) ==
    [ name    |-> self.name,
      stream  |-> self.source,
      service |-> job_fn(f) ]

\* WorkerFactoryFn::build_fn(self, f) = self.build(job_fn(f))
build_fn(self, f) == build(self, job_fn(f))

----------------------------------------------------------------------------
(* State machine: one builder chain, from new() to the worker's calls *)

Init ==
    /\ named = <<>>
    /\ builder = <<>>
    /\ worker = <<>>
    /\ result = <<>>
    /\ added = <<>>
    /\ attached = <<>>
    /\ factoryCalls = <<>>
    /\ consumed = <<>>
    /\ builtVia = <<>>

\* let b = WorkerBuilder::new(n);
New(n) ==
    /\ builder = <<>>
    /\ consumed = <<>>
    /\ builder' = << new(n) >>
    /\ named' = << n >>
    /\ UNCHANGED <<worker, result, added, attached, factoryCalls, consumed, builtVia>>

\* let b = b.stream(s);
Stream(s) ==
    /\ builder # <<>>
    /\ Len(attached) < MaxAttach
    /\ builder' = << stream(builder[1], s) >>
    /\ attached' = Append(attached, s)
    /\ UNCHANGED <<named, worker, result, added, factoryCalls, consumed, builtVia>>

\* let b = b.with_stream(fac);
WithStream(fac) ==
    /\ builder # <<>>
    /\ Len(attached) < MaxAttach
    /\ LET out == with_stream(builder[1], fac)
       IN  /\ builder' = << out.b >>
           /\ attached' = Append(attached, out.b.source)
           /\ factoryCalls' = factoryCalls \o out.calls
    /\ UNCHANGED <<named, worker, result, added, consumed, builtVia>>

\* let b = b.middleware(|sb| sb.layer(ds[1])...);
Middleware(ds) ==
    /\ builder # <<>>
    /\ Len(added) + Len(ds) <= MaxDecorators
    /\ builder' = << middleware(builder[1], ds) >>
    /\ added' = added \o ds
    /\ UNCHANGED <<named, worker, result, attached, factoryCalls, consumed, builtVia>>

\* let b = b.layer(d);
Layer(d) ==
    /\ builder # <<>>
    /\ Len(added) + 1 <= MaxDecorators
    /\ builder' = << layer(builder[1], d) >>
    /\ added' = Append(added, d)
    /\ UNCHANGED <<named, worker, result, attached, factoryCalls, consumed, builtVia>>

\* build taking the builder by reference: the caller still holds it.
Build_ByRef(service) ==
    /\ builder # <<>>
    /\ Len(consumed) < 2
    /\ CanBuild(builder[1], service)
    /\ worker' = << build(builder[1], service) >>
    /\ consumed' = Append(consumed, builder[1])
    /\ builtVia' = Append(builtVia, [via |-> "build", kind |-> service[1], h |-> service[2]])
    /\ UNCHANGED <<named, builder, result, added, attached, factoryCalls>>

\* let w = b.build(service);   -- `self` is moved into the worker
Build(service) ==
    /\ builder # <<>>
    /\ CanBuild(builder[1], service)
    /\ worker' = << build(builder[1], service) >>
    /\ builder' = <<>>
    /\ consumed' = Append(consumed, builder[1])
    /\ builtVia' = Append(builtVia, [via |-> "build", kind |-> service[1], h |-> service[2]])
    /\ UNCHANGED <<named, result, added, attached, factoryCalls>>

\* let w = b.build_fn(f);
BuildFn(f) ==
    /\ builder # <<>>
    /\ CanBuild(builder[1], job_fn(f))
    /\ worker' = << build_fn(builder[1], f) >>
    /\ builder' = <<>>
    /\ consumed' = Append(consumed, builder[1])
    /\ builtVia' = Append(builtVia, [via |-> "build_fn", kind |-> "Fn", h |-> f])
    /\ UNCHANGED <<named, result, added, attached, factoryCalls>>

\* The worker's service called on one request, driven to completion.
Invoke(r) ==
    /\ worker # <<>>
    /\ result' = << Call(worker[1].service, r) >>
    /\ UNCHANGED <<named, builder, worker, added, attached, factoryCalls, consumed, builtVia>>

Next ==
    \/ \E n \in Names : New(n)
    \/ \E s \in Streams : Stream(s)
    \/ \E fac \in Factories : WithStream(fac)
    \/ \E ds \in SeqsUpTo(Decorators, MaxBatch) : Middleware(ds)
    \/ \E d \in Decorators : Layer(d)
    \/ \E service \in TerminalServices : Build(service)
    \/ \E f \in Handlers : BuildFn(f)
    \/ \E r \in Requests : Invoke(r)

Spec == Init /\ [][Next]_vars

----------------------------------------------------------------------------
(* Properties *)

Last(s) == s[Len(s)]

AllPass(ds) == \A i \in 1 .. Len(ds) : ds[i] \in PassThrough

Built == worker # <<>> /\ builtVia # <<>>

\* The terminal function the worker was built around.
Terminal == Last(builtVia).h

\* The terminal service handed to build (build_fn hands it job_fn(f)).
GivenService ==
    IF Last(builtVia).via = "build_fn" THEN job_fn(Terminal)
    ELSE <<Last(builtVia).kind, Terminal>>

PreMarks(ds) == [i \in 1 .. Len(ds) |-> <<"pre", ds[i]>>]

PostMarks(ds) == [i \in 1 .. Len(ds) |-> <<"post", ds[Len(ds) + 1 - i]>>]

\* The decorators of a composed service, outermost first.
RECURSIVE DecoratorsOf(_)
DecoratorsOf(svc) ==
    IF svc[1] = "Wrap" THEN <<svc[2]>> \o DecoratorsOf(svc[3]) ELSE <<>>

\* The innermost service of a composed service.
RECURSIVE InnermostOf(_)
InnermostOf(svc) == IF svc[1] = "Wrap" THEN InnermostOf(svc[3]) ELSE svc

\* ds[1] around ds[2] around ... around svc.
RECURSIVE Nest(_, _)
Nest(ds, svc) ==
    IF ds = <<>> THEN svc ELSE <<"Wrap", Head(ds), Nest(Tail(ds), svc)>>

\* C1: a call of the built worker's handler runs the pre-logic of the
\* decorators in the order they were added (D1 first, Dn last), then the
\* terminal handler, then the post-logic in the reverse order (Dn .. D1).
C1_CallOrder ==
    (Built /\ result # <<>>) =>
        result[1].trace =
            PreMarks(added) \o << <<"call", Terminal>> >> \o PostMarks(added)

C1_Witness ==
    /\ Built
    /\ result # <<>>
    /\ Len(added) = 2
    /\ added[1] # added[2]
    /\ result[1].trace[1] = <<"pre", added[1]>>
    /\ result[1].trace[3] = <<"call", Terminal>>

\* C2: building is one-shot: a builder chain yields at most one worker, the
\* build step leaves no builder behind, and once the builder has been moved
\* into build no step attaches, decorates or builds again.
C2_OneShot ==
    [][ /\ Len(consumed') <= 1
        /\ Len(builtVia') <= 1
        /\ (consumed' # consumed => builder' = <<>>)
        /\ (consumed # <<>> =>
                /\ builder' = <<>>
                /\ worker' = worker
                /\ consumed' = consumed
                /\ added' = added
                /\ attached' = attached) ]_vars

C2_Witness ==
    /\ Len(consumed) = 1
    /\ worker # <<>>
    /\ builder = <<>>
    /\ result # <<>>

\* C3: the name handed to new() is the name of every intermediate builder
\* and of the worker built.
C3_NamePropagated ==
    /\ (builder # <<>> => named # <<>> /\ builder[1].name = named[1])
    /\ (worker # <<>> => named # <<>> /\ worker[1].name = named[1])

C3_Witness ==
    /\ worker # <<>>
    /\ worker[1].name = "beta"
    /\ Len(attached) = 2
    /\ factoryCalls # <<>>
    /\ Len(added) = 2

\* C4: a worker built by build_fn(f) is the worker build(job_fn(f)) yields
\* from the same builder state, and conversely; on every request both call f
\* with the same argument and give the same result.
C4_BuildFnEquivalent ==
    Built =>
        /\ (Last(builtVia).via = "build_fn" =>
                LET w == build(Last(consumed), job_fn(Terminal))
                IN  /\ worker[1] = w
                    /\ (result # <<>> =>
                            result[1] = Call(w.service, result[1].req)))
        /\ ((Last(builtVia).via = "build" /\ Last(builtVia).kind = "JobFn") =>
                LET w == build_fn(Last(consumed), Terminal)
                IN  /\ worker[1] = w
                    /\ (result # <<>> =>
                            result[1] = Call(w.service, result[1].req)))

C4_Witness ==
    /\ Built
    /\ Last(builtVia).via = "build_fn"
    /\ Len(added) = 2
    /\ "RQ" \in {added[1], added[2]}
    /\ result # <<>>
    /\ result[1].args = <<result[1].req + 1>>

\* C5: when every decorator added is a pass-through, a call of the built
\* worker's handler on request r yields exactly f(r) and reaches the
\* terminal handler exactly once, with r.
C5_Neutrality ==
    (Built /\ result # <<>> /\ AllPass(added)) =>
        /\ result[1].resp = Apply(Terminal, result[1].req)
        /\ result[1].args = <<result[1].req>>
        /\ Cardinality({ i \in 1 .. Len(result[1].trace) :
                            result[1].trace[i][1] = "call" }) = 1

C5_Witness ==
    /\ Built
    /\ result # <<>>
    /\ Len(added) = 2
    /\ AllPass(added)
    /\ result[1].resp = Apply(Terminal, result[1].req)

\* C6 (as claimed): once a source has replaced the placeholder, no later
\* step of the chain attaches a source again or changes the job-item type.
C6_SourceSlotOnce ==
    [][ (builder # <<>> /\ builder' # <<>> /\ builder[1].source # UnitSource) =>
            /\ builder'[1].source = builder[1].source
            /\ builder'[1].job = builder[1].job
            /\ attached' = attached ]_vars

\* C7: with_stream calls the closure exactly once, with a WorkerRef carrying
\* the builder's name, stores the stream returned, and otherwise yields the
\* builder stream() yields for that stream.
C7_WithStream ==
    [][ (factoryCalls' # factoryCalls) =>
            /\ builder # <<>>
            /\ builder' # <<>>
            /\ Len(factoryCalls') = Len(factoryCalls) + 1
            /\ SubSeq(factoryCalls', 1, Len(factoryCalls)) = factoryCalls
            /\ LET c == Last(factoryCalls')
               IN  /\ c[2] = WorkerRef_new(builder[1].name)
                   /\ builder'[1].source = ApplyFactory(c[1], c[2])
                   /\ builder'[1] = stream(builder[1], ApplyFactory(c[1], c[2])) ]_vars

C7_Witness ==
    /\ builder # <<>>
    /\ Len(factoryCalls) = 1
    /\ added # <<>>
    /\ builder[1].source.id = <<"queue", builder[1].name>>
    /\ builder[1].layer # Identity

\* C8: build is not available while the source is the placeholder of new(),
\* and every worker holds the stream attached last in its builder chain.
C8_SourceBeforeBuild ==
    /\ (builder # <<>> /\ builder[1].source = UnitSource) =>
            \A service \in TerminalServices : ~ CanBuild(builder[1], service)
    /\ worker # <<>> =>
            /\ worker[1].stream # UnitSource
            /\ attached # <<>>
            /\ worker[1].stream = Last(attached)

C8_Witness ==
    /\ worker # <<>>
    /\ Len(attached) = 1
    /\ worker[1].stream = attached[1]

\* C9 (as claimed): in the composed handler a decorator added later encloses
\* every decorator added earlier, and the terminal handler is innermost.
C9_LaterEnclosesEarlier ==
    Built =>
        /\ DecoratorsOf(worker[1].service) = Reverse(added)
        /\ InnermostOf(worker[1].service) = GivenService

\* C9 (amended): in the composed handler a decorator added earlier encloses
\* every decorator added later, and the terminal handler is innermost.
C9_EarlierEnclosesLater ==
    Built =>
        /\ DecoratorsOf(worker[1].service) = added
        /\ InnermostOf(worker[1].service) = GivenService

C9_Witness ==
    /\ Built
    /\ Len(added) = 2
    /\ added[1] # added[2]
    /\ worker[1].service[2] = added[1]
    /\ worker[1].service[3][2] = added[2]

\* C10: stream/with_stream leave the name and the layer stack alone;
\* layer/middleware leave the name, the source and the job-item type alone;
\* so the worker built depends only on the name, the source attached last,
\* the decorators in the order added and the terminal service.
C10_Frame ==
    [][ /\ (attached' # attached /\ builder # <<>> /\ builder' # <<>>) =>
                /\ builder'[1].name = builder[1].name
                /\ builder'[1].layer = builder[1].layer
                /\ added' = added
        /\ (added' # added /\ builder # <<>> /\ builder' # <<>>) =>
                /\ builder'[1].name = builder[1].name
                /\ builder'[1].source = builder[1].source
                /\ builder'[1].job = builder[1].job
                /\ attached' = attached
        /\ (worker' # <<>> /\ builtVia' # <<>>) =>
                worker'[1] =
                    [ name    |-> named'[1],
                      stream  |-> Last(attached'),
                      service |-> Nest(added', IF Last(builtVia').via = "build_fn"
                                               THEN job_fn(Last(builtVia').h)
                                               ELSE <<Last(builtVia').kind,
                                                      Last(builtVia').h>>) ] ]_vars

C10_Witness ==
    /\ Built
    /\ Len(added) = 2
    /\ Len(attached) = 2
    /\ attached[1] # attached[2]
    /\ worker[1].stream = attached[2]

====
